---- MODULE Spec2Model ----
(***************************************************************************)
(* A model of minigrep (src/src/lib.rs): Config::new, run, search and      *)
(* search_case_insensitive.                                                *)
(*                                                                         *)
(* A string is a sequence of characters.  The characters are the ones the  *)
(* code treats differently: the two line-ending characters of str::lines,  *)
(* an ordinary cased pair a/A, and the Greek sigma, the one letter whose   *)
(* lowercase form under str::to_lowercase depends on its neighbours: the   *)
(* capital is lowered to the small sigma or, at the end of a word, to the  *)
(* final sigma, which the inputs need not hold themselves.                 *)
(***************************************************************************)
EXTENDS Integers, Sequences, FiniteSets, TLC

\* ------------------------------------------------------------- bounds ---
MaxTextLen == 3
MaxQueryLen == 2
MaxArgs == 4

\* --------------------------------------------------------- characters ---
LF == "LF"
CR == "CR"
CapSigma == "Sigma_upper"
SmallSigma == "sigma_small"
FinalSigma == "sigma_final"

Alphabet == {LF, CR, "a", "A", CapSigma, SmallSigma}

StringsUpTo(n) == UNION {[1..k -> Alphabet] : k \in 0..n}
Texts == StringsUpTo(MaxTextLen)
Queries == StringsUpTo(MaxQueryLen)

\* ------------------------------------------------- str::contains --------
StartsWith(hay, needle) ==
    /\ Len(needle) <= Len(hay)
    /\ SubSeq(hay, 1, Len(needle)) = needle

\* A mutant of Contains: the needle is looked for at the start of the line only.
ContainsAtStartOnly(hay, needle) == StartsWith(hay, needle)

\* A mutant of Contains: an empty needle is found nowhere.
RECURSIVE ContainsNonEmpty(_, _)
ContainsNonEmpty(hay, needle) ==
    /\ needle # <<>>
    /\ hay # <<>>
    /\ \/ StartsWith(hay, needle)
       \/ ContainsNonEmpty(Tail(hay), needle)

\* line.contains(query): the needle is looked for at every offset of hay.
RECURSIVE Contains(_, _)
Contains(hay, needle) ==
    \/ StartsWith(hay, needle)
    \/ /\ hay # <<>>
       /\ Contains(Tail(hay), needle)

\* ------------------------------------------------- str::lines -----------
\* The piece of s before its first LF (all of s when it holds none).
RECURSIVE UpToLF(_)
UpToLF(s) ==
    IF s = <<>> \/ Head(s) = LF THEN <<>> ELSE <<Head(s)>> \o UpToLF(Tail(s))

\* What follows the first LF of s (nothing when it holds none).
RECURSIVE AfterLF(_)
AfterLF(s) ==
    IF s = <<>> THEN <<>>
    ELSE IF Head(s) = LF THEN Tail(s) ELSE AfterLF(Tail(s))

\* A piece that was ended by LF loses the CR before that LF.
StripCR(piece) ==
    IF piece # <<>> /\ piece[Len(piece)] = CR
    THEN SubSeq(piece, 1, Len(piece) - 1)
    ELSE piece

\* A mutant of Lines: a text ending in LF yields one more, empty, line
\* (str::split instead of str::lines).
RECURSIVE LinesWithTrailingEmpty(_)
LinesWithTrailingEmpty(s) ==
    IF LF \in {s[i] : i \in 1..Len(s)}
    THEN <<StripCR(UpToLF(s))>> \o LinesWithTrailingEmpty(AfterLF(s))
    ELSE <<s>>

\* contents.lines(): the text is cut after every LF; a piece ended by CR LF
\* loses both; a last piece with no LF is a line, kept as it is, since a
\* carriage return not followed by a line feed is no terminator (older
\* standard libraries also dropped a CR that ends the text: the two differ
\* on texts ending in CR only); nothing follows a final LF.
RECURSIVE Lines(_)
Lines(s) ==
    IF s = <<>> THEN <<>>
    ELSE IF LF \in {s[i] : i \in 1..Len(s)}
         THEN <<StripCR(UpToLF(s))>> \o Lines(AfterLF(s))
         ELSE <<s>>

\* ------------------------------------------------- str::to_lowercase ----
Cased(c) == c \in {"a", "A", CapSigma, SmallSigma, FinalSigma}
\* No character of the alphabet has the Case_Ignorable property (the
\* apostrophe, the full stop and the combining marks have it).
Case_Ignorable(c) == FALSE

\* char::to_lowercase for every character but the capital sigma.
LowerChar(c) == IF c = "A" THEN "a" ELSE c

\* case_ignoreable_then_cased: the first character of s that is not
\* case-ignorable exists and is cased.
RECURSIVE CaseIgnorableThenCased(_)
CaseIgnorableThenCased(s) ==
    IF s = <<>> THEN FALSE
    ELSE IF Case_Ignorable(Head(s)) THEN CaseIgnorableThenCased(Tail(s))
         ELSE Cased(Head(s))

Reverse(s) == [i \in 1..Len(s) |-> s[Len(s) + 1 - i]]

\* map_uppercase_sigma: the capital sigma at index i of s becomes the final
\* sigma when a cased letter precedes it and none follows, else the small one.
LowerSigma(s, i) ==
    IF /\ CaseIgnorableThenCased(Reverse(SubSeq(s, 1, i - 1)))
       /\ ~CaseIgnorableThenCased(SubSeq(s, i + 1, Len(s)))
    THEN FinalSigma
    ELSE SmallSigma

\* str::to_lowercase: character by character, but for the capital sigma.
to_lowercase(s) ==
    [i \in 1..Len(s) |-> IF s[i] = CapSigma THEN LowerSigma(s, i) ELSE LowerChar(s[i])]

\* ------------------------------------------------- the search functions -
\* search: contents.lines().filter(|line| line.contains(query)).collect()
search(query, contents) ==
    SelectSeq(Lines(contents), LAMBDA line : Contains(line, query))

\* A mutant of search_case_insensitive: the query is not lowered.
search_case_insensitive_raw_query(query, contents) ==
    SelectSeq(Lines(contents), LAMBDA line : Contains(to_lowercase(line), query))

\* search_case_insensitive: the query is lowered once, each line is lowered
\* for the test, and the lines returned are the original ones.
search_case_insensitive(query, contents) ==
    LET q == to_lowercase(query)
    IN SelectSeq(Lines(contents), LAMBDA line : Contains(to_lowercase(line), q))

\* ------------------------------------------------- the process's inputs -
\* An OsString: a command-line argument, the value of an environment
\* variable, or the bytes of a file.  It is valid Unicode, and then s is its
\* text, or it is not.
Utf8(s) == [valid |-> TRUE, s |-> s]
NotUnicode == [valid |-> FALSE, s |-> <<>>]

\* Option<T>: None is the empty sequence, Some(x) is <<x>>.
None == <<>>
Some(x) == <<x>>

\* The arguments a command line is built from: a query, the name of a
\* regular file, the name of a directory, and an argument that is not Unicode.
\* A name that is neither the file's nor the directory's names nothing.
QueryArg == <<"a">>
FileName == <<"f">>
DirName == <<"d">>
ArgValues == {Utf8(QueryArg), Utf8(FileName), Utf8(DirName), NotUnicode}
ArgLists == UNION {[1..k -> ArgValues] : k \in 0..MaxArgs}

\* CASE_INSENSITIVE: unset, set to the empty string, set to "A", set to
\* bytes that are not Unicode.
EnvValues == {None, Some(Utf8(<<>>)), Some(Utf8(<<"A">>)), Some(NotUnicode)}

\* What the regular file holds.
FileTexts == {<<>>, <<"a", LF, "A", LF, "a">>, <<"A", "a", CR, LF, "A", LF>>}
DiskValues == {Utf8(t) : t \in FileTexts} \cup {NotUnicode}

\* io::Error kinds, and the two messages of Config::new.
NotFound == "NotFound"
PermissionDenied == "PermissionDenied"
IsADirectory == "IsADirectory"
InvalidData == "InvalidData"
NoQuery == "Didn't get a query string"
NoFileName == "Didn't get a file name"

NoResult == [tag |-> "none", err |-> ""]
Ok == [tag |-> "Ok", err |-> ""]
Err(e) == [tag |-> "Err", err |-> e]

\* ------------------------------------------------------------- state ----
VARIABLES
    fn,        \* which search function was called: "none" before the call
    query,     \* its first argument
    text,      \* its second argument
    found,     \* the vector it returned
    pc,        \* the statement of Config::new or run that is next
    argv,      \* the process's command line
    env,       \* the process's value of CASE_INSENSITIVE
    disk,      \* the bytes of the regular file
    args,      \* what the iterator `args` has still to yield
    lquery,    \* Config::new's local `query`
    lfilename, \* Config::new's local `filename`
    newRet,    \* what Config::new returned
    config,    \* the Config, once built
    fileOpen,  \* run's local `f` holds an open handle
    touched,   \* the names File::open was called with
    contents,  \* run's local `contents`
    results,   \* run's local `results`
    next,      \* how many elements of `results` the for loop has taken
    stdout,    \* the characters written to standard output
    runRet     \* what run returned

svars == <<fn, query, text, found>>
pvars == <<pc, argv, env, disk, args, lquery, lfilename, newRet, config,
           fileOpen, touched, contents, results, next, stdout, runRet>>
vars == <<svars, pvars>>

\* ------------------------------------------ the search functions, called -
SearchIdle ==
    /\ fn = "none"
    /\ query = <<>>
    /\ text = <<>>
    /\ found = <<>>

ProgramIdle ==
    /\ pc = "idle"
    /\ argv = <<>>
    /\ env = None
    /\ disk = Utf8(<<>>)
    /\ args = <<>>
    /\ lquery = <<>>
    /\ lfilename = <<>>
    /\ newRet = NoResult
    /\ config = None
    /\ fileOpen = FALSE
    /\ touched = {}
    /\ contents = <<>>
    /\ results = <<>>
    /\ next = 0
    /\ stdout = <<>>
    /\ runRet = NoResult

SearchInit ==
    /\ fn = "none"
    /\ query \in Queries
    /\ text \in Texts
    /\ found = <<>>
    /\ ProgramIdle

CallSearch ==
    /\ fn = "none"
    /\ fn' = "search"
    /\ found' = search(query, text)
    /\ UNCHANGED <<query, text, pvars>>

CallSearchCaseInsensitive ==
    /\ fn = "none"
    /\ fn' = "search_case_insensitive"
    /\ found' = search_case_insensitive(query, text)
    /\ UNCHANGED <<query, text, pvars>>

SearchNext == CallSearch \/ CallSearchCaseInsensitive

SearchSpec == SearchInit /\ [][SearchNext]_vars

\* ------------------------------------------------------- Config::new ----
Init ==
    /\ SearchIdle
    /\ pc = "new_argv0"
    /\ argv \in ArgLists
    /\ env \in EnvValues
    /\ disk \in DiskValues
    /\ args = argv
    /\ lquery = <<>>
    /\ lfilename = <<>>
    /\ newRet = NoResult
    /\ config = None
    /\ fileOpen = FALSE
    /\ touched = {}
    /\ contents = <<>>
    /\ results = <<>>
    /\ next = 0
    /\ stdout = <<>>
    /\ runRet = NoResult

\* env::Args::next() panics when the argument it is to yield is not Unicode.
NextPanics == args # <<>> /\ ~Head(args).valid

Panic ==
    /\ pc' = "panic"
    /\ UNCHANGED <<argv, env, disk, args, lquery, lfilename, newRet, config,
                   fileOpen, touched, contents, results, next, stdout, runRet>>

\* A mutant of NewSkipProgramName: argument 0 is not discarded.
NewKeepProgramName ==
    /\ pc = "new_argv0"
    /\ pc' = "new_query"
    /\ UNCHANGED <<argv, env, disk, args, lquery, lfilename, newRet, config,
                   fileOpen, touched, contents, results, next, stdout, runRet>>
    /\ UNCHANGED svars

\* args.next();
NewSkipProgramName ==
    /\ pc = "new_argv0"
    /\ IF NextPanics THEN Panic
       ELSE /\ args' = IF args = <<>> THEN <<>> ELSE Tail(args)
            /\ pc' = "new_query"
            /\ UNCHANGED <<argv, env, disk, lquery, lfilename, newRet, config,
                           fileOpen, touched, contents, results, next, stdout, runRet>>
    /\ UNCHANGED svars

\* let query = match args.next() { Some(arg) => arg, None => return Err(..) };
NewTakeQuery ==
    /\ pc = "new_query"
    /\ IF NextPanics THEN Panic
       ELSE IF args = <<>>
       THEN /\ newRet' = Err(NoQuery)
            /\ pc' = "new_err"
            /\ UNCHANGED <<argv, env, disk, args, lquery, lfilename, config,
                           fileOpen, touched, contents, results, next, stdout, runRet>>
       ELSE /\ lquery' = Head(args).s
            /\ args' = Tail(args)
            /\ pc' = "new_filename"
            /\ UNCHANGED <<argv, env, disk, lfilename, newRet, config,
                           fileOpen, touched, contents, results, next, stdout, runRet>>
    /\ UNCHANGED svars

\* let filename = match args.next() { Some(arg) => arg, None => return Err(..) };
NewTakeFilename ==
    /\ pc = "new_filename"
    /\ IF NextPanics THEN Panic
       ELSE IF args = <<>>
       THEN /\ newRet' = Err(NoFileName)
            /\ pc' = "new_err"
            /\ UNCHANGED <<argv, env, disk, args, lquery, lfilename, config,
                           fileOpen, touched, contents, results, next, stdout, runRet>>
       ELSE /\ lfilename' = Head(args).s
            /\ args' = Tail(args)
            /\ pc' = "new_env"
            /\ UNCHANGED <<argv, env, disk, lquery, newRet, config,
                           fileOpen, touched, contents, results, next, stdout, runRet>>
    /\ UNCHANGED svars

\* env::var("CASE_INSENSITIVE").is_err(): env::var is Err(NotPresent) for an
\* unset variable and Err(NotUnicode) for a value that is not valid Unicode.
EnvVarIsErr == env = None \/ ~env[1].valid

\* let case_sensitive = ...; Ok(Config { query, filename, case_sensitive }).
\* The Config returned is the one run is then called with.
NewReadEnv ==
    /\ pc = "new_env"
    /\ config' = Some([query |-> lquery, filename |-> lfilename,
                       case_sensitive |-> EnvVarIsErr])
    /\ newRet' = Ok
    /\ pc' = "run_open"
    /\ UNCHANGED <<argv, env, disk, args, lquery, lfilename,
                   fileOpen, touched, contents, results, next, stdout, runRet>>
    /\ UNCHANGED svars

\* --------------------------------------------------------------- run ----
cfg == config[1]

\* for line in results { println!("{}", line); }: what the loop writes for
\* one element is the element and a line feed.
Println(line) == line \o <<LF>>

\* File::open(config.filename)?: the regular file opens; the directory opens
\* (and cannot be read) or is refused, as the platform decides; any other
\* name is not found.  An error is returned at once.
RunOpen ==
    /\ pc = "run_open"
    /\ touched' = touched \cup {cfg.filename}
    /\ \/ /\ cfg.filename \in {FileName, DirName}
          /\ fileOpen' = TRUE
          /\ pc' = "run_read"
          /\ UNCHANGED runRet
       \/ /\ cfg.filename = DirName
          /\ runRet' = Err(PermissionDenied)
          /\ pc' = "run_err"
          /\ UNCHANGED fileOpen
       \/ /\ cfg.filename \notin {FileName, DirName}
          /\ runRet' = Err(NotFound)
          /\ pc' = "run_err"
          /\ UNCHANGED fileOpen
    /\ UNCHANGED <<argv, env, disk, args, lquery, lfilename, newRet, config,
                   contents, results, next, stdout>>
    /\ UNCHANGED svars

\* A mutant of RunRead: a failed read is taken for an empty file.
RunReadSwallowingErrors ==
    /\ pc = "run_read"
    /\ contents' = IF cfg.filename = FileName /\ disk.valid THEN disk.s ELSE <<>>
    /\ pc' = "run_search"
    /\ UNCHANGED <<argv, env, disk, args, lquery, lfilename, newRet, config,
                   fileOpen, touched, results, next, stdout, runRet>>
    /\ UNCHANGED svars

\* f.read_to_string(&mut contents)?: the whole file, to its end, when it can
\* be read and is valid UTF-8.  On an error run returns it, and `f` is dropped.
RunRead ==
    /\ pc = "run_read"
    /\ IF cfg.filename = DirName
       THEN /\ runRet' = Err(IsADirectory)
            /\ fileOpen' = FALSE
            /\ pc' = "run_err"
            /\ UNCHANGED contents
       ELSE IF ~disk.valid
       THEN /\ runRet' = Err(InvalidData)
            /\ fileOpen' = FALSE
            /\ pc' = "run_err"
            /\ UNCHANGED contents
       ELSE /\ contents' = disk.s
            /\ pc' = "run_search"
            /\ UNCHANGED <<fileOpen, runRet>>
    /\ UNCHANGED <<argv, env, disk, args, lquery, lfilename, newRet, config,
                   touched, results, next, stdout>>
    /\ UNCHANGED svars

\* A mutant of RunSearch: the two branches of the if are exchanged.
RunSearchSwapped ==
    /\ pc = "run_search"
    /\ results' = IF cfg.case_sensitive
                  THEN search_case_insensitive(cfg.query, contents)
                  ELSE search(cfg.query, contents)
    /\ pc' = "run_print"
    /\ UNCHANGED <<argv, env, disk, args, lquery, lfilename, newRet, config,
                   fileOpen, touched, contents, next, stdout, runRet>>
    /\ UNCHANGED svars

\* let results = if config.case_sensitive { search(..) } else { search_case_insensitive(..) };
RunSearch ==
    /\ pc = "run_search"
    /\ results' = IF cfg.case_sensitive
                  THEN search(cfg.query, contents)
                  ELSE search_case_insensitive(cfg.query, contents)
    /\ pc' = "run_print"
    /\ UNCHANGED <<argv, env, disk, args, lquery, lfilename, newRet, config,
                   fileOpen, touched, contents, next, stdout, runRet>>
    /\ UNCHANGED svars

\* One turn of the for loop: the next element of results is printed.
RunPrint ==
    /\ pc = "run_print"
    /\ next < Len(results)
    /\ stdout' = stdout \o Println(results[next + 1])
    /\ next' = next + 1
    /\ UNCHANGED <<pc, argv, env, disk, args, lquery, lfilename, newRet, config,
                   fileOpen, touched, contents, results, runRet>>
    /\ UNCHANGED svars

\* A mutant of RunReturn: the handle outlives run.
RunReturnLeakingHandle ==
    /\ pc = "run_print"
    /\ next = Len(results)
    /\ runRet' = Ok
    /\ pc' = "run_ok"
    /\ UNCHANGED <<argv, env, disk, args, lquery, lfilename, newRet, config,
                   fileOpen, touched, contents, results, next, stdout>>
    /\ UNCHANGED svars

\* Ok(()) after the loop; run's locals, `f` among them, are dropped as it
\* returns.
RunReturn ==
    /\ pc = "run_print"
    /\ next = Len(results)
    /\ runRet' = Ok
    /\ fileOpen' = FALSE
    /\ pc' = "run_ok"
    /\ UNCHANGED <<argv, env, disk, args, lquery, lfilename, newRet, config,
                   touched, contents, results, next, stdout>>
    /\ UNCHANGED svars

ProgramNext ==
    \/ NewSkipProgramName
    \/ NewTakeQuery
    \/ NewTakeFilename
    \/ NewReadEnv
    \/ RunOpen
    \/ RunRead
    \/ RunSearch
    \/ RunPrint
    \/ RunReturn

Spec == Init /\ [][ProgramNext]_vars

\* ---------------------------------------------- notions the claims use --
\* needle is a contiguous piece of hay, at some offset.
OccursIn(hay, needle) ==
    \E i \in 0..(Len(hay) - Len(needle)) : SubSeq(hay, i + 1, i + Len(needle)) = needle

\* res is lines with exactly the elements satisfying P kept: as many
\* elements as lines has places satisfying P, and the k-th of them is the
\* line at the k-th such place.
IsFilterOf(res, lines, P(_)) ==
    LET idx == {i \in 1..Len(lines) : P(lines[i])}
    IN /\ Len(res) = Cardinality(idx)
       /\ \A i \in idx : res[Cardinality({j \in idx : j <= i})] = lines[i]

RECURSIVE IsSubsequence(_, _)
IsSubsequence(a, b) ==
    IF a = <<>> THEN TRUE
    ELSE IF b = <<>> THEN FALSE
    ELSE IF Head(a) = Head(b) THEN IsSubsequence(Tail(a), Tail(b))
    ELSE IsSubsequence(a, Tail(b))

\* The characters that differ from c in letter case only.
CaseClass(c) ==
    IF c \in {"a", "A"} THEN {"a", "A"}
    ELSE IF c \in {CapSigma, SmallSigma, FinalSigma} THEN {CapSigma, SmallSigma, FinalSigma}
    ELSE {c}

\* The strings that differ from q in letter case only.
CaseVariants(q) ==
    {v \in [1..Len(q) -> Alphabet] : \A i \in 1..Len(q) : v[i] \in CaseClass(q[i])}

EndsInTerminator(t) == t # <<>> /\ t[Len(t)] = LF
EndsInCR(t) == t # <<>> /\ t[Len(t)] = CR
Terminators == {<<LF>>, <<CR, LF>>}
HoldsLF(line) == \E i \in 1..Len(line) : line[i] = LF

\* ------------------------------------------------------------- claims ---
\* C1: for every query Q and text T, search(Q, T) is exactly the lines of T
\* that contain Q as a contiguous exact-case substring: only such lines, all
\* of them, in T's order, each as often as it occurs among the matches.
C1_SearchReturnsExactlyTheMatchingLines ==
    fn = "search" =>
        IsFilterOf(found, Lines(text), LAMBDA line : OccursIn(line, query))

\* C1's case: a text of two equal lines that hold the query; both are
\* returned.
C1_Witness ==
    /\ fn = "search"
    /\ query = <<"a">>
    /\ text = <<"a", LF, "a">>
    /\ found = <<<<"a">>, <<"a">>>>

\* C2: for every query Q and text T, search_case_insensitive(Q, T) is, in
\* T's order, exactly the lines L of T for which to_lowercase(L) contains
\* to_lowercase(Q); the lines returned are the original ones, not lowered.
C2_CaseInsensitiveReturnsExactlyTheLoweredMatches ==
    fn = "search_case_insensitive" =>
        IsFilterOf(found, Lines(text),
                   LAMBDA line : OccursIn(to_lowercase(line), to_lowercase(query)))

\* C2's case: a line is returned that matches only once it is lowered, and
\* it is returned with its capital letter.
C2_Witness ==
    /\ fn = "search_case_insensitive"
    /\ query = <<"a">>
    /\ found = <<<<"A">>>>
    /\ Len(Lines(text)) = 2

\* C7: with the empty query both functions return all the lines of T, in
\* order.
C7_EmptyQueryReturnsAllLines ==
    (fn # "none" /\ query = <<>>) => found = Lines(text)

\* C7's case: the empty query on a text of two lines, one of them empty.
C7_Witness ==
    /\ fn = "search_case_insensitive"
    /\ query = <<>>
    /\ text = <<LF, "A">>
    /\ Len(found) = 2

\* C9 as stated: for every text T that does not end in a terminator, T
\* followed by one terminator has the same candidate lines as T, and no
\* returned line holds a terminator.
C9_Original ==
    fn # "none" =>
        /\ ~EndsInTerminator(text) =>
               \A term \in Terminators : Lines(text \o term) = Lines(text)
        /\ \A k \in 1..Len(found) : ~HoldsLF(found[k])

\* C9 as amended: for every non-empty text T that ends neither in a
\* terminator nor in a carriage return, T followed by one terminator (LF or
\* CR LF) has the same candidate lines as T, the last of which is T's
\* unterminated final piece; no returned line holds a line feed.
C9_LinesIgnoreOneFinalTerminator ==
    /\ (text # <<>> /\ ~EndsInTerminator(text) /\ ~EndsInCR(text)) =>
           /\ \A term \in Terminators : Lines(text \o term) = Lines(text)
           /\ Lines(text) # <<>>
           /\ LET last == Lines(text)[Len(Lines(text))]
              IN /\ last # <<>>
                 /\ SubSeq(text, Len(text) - Len(last) + 1, Len(text)) = last
    /\ \A k \in 1..Len(found) : ~HoldsLF(found[k])

\* C9's case: a text of two lines, the second unterminated, both returned.
C9_Witness ==
    /\ fn = "search"
    /\ text = <<"a", LF, "a">>
    /\ found = <<<<"a">>, <<"a">>>>
    /\ Lines(text \o <<CR, LF>>) = found

\* C10 as stated: every line search(Q, T) returns is returned by
\* search_case_insensitive(Q, T), the former being a subsequence of the
\* latter, and search_case_insensitive(Q', T) = search_case_insensitive(Q, T)
\* for every Q' that differs from Q in letter case only.
C10_Original ==
    /\ fn = "search" =>
           IsSubsequence(found, search_case_insensitive(query, text))
    /\ fn = "search_case_insensitive" =>
           \A q2 \in CaseVariants(query) : search_case_insensitive(q2, text) = found

\* The arguments Config::new takes from the iterator: the first three.
Consumed == SubSeq(argv, 1, IF Len(argv) < 3 THEN Len(argv) ELSE 3)
ConsumedAreUnicode == \A i \in 1..Len(Consumed) : Consumed[i].valid
NewDone == pc \notin {"idle", "new_argv0", "new_query", "new_filename", "new_env"}

\* C3 as stated: whenever Config::new succeeds, case_sensitive is true if
\* and only if CASE_INSENSITIVE is unset, whatever value it is set to.
C3_Original ==
    newRet = Ok => (cfg.case_sensitive <=> env = None)

\* What C4 says of the command lines whose length it names.
C4_Returns ==
    /\ Len(argv) <= 1 => newRet = Err(NoQuery)
    /\ Len(argv) = 2 => newRet = Err(NoFileName)
    /\ Len(argv) >= 3 =>
           /\ newRet = Ok
           /\ config # None
           /\ cfg.query = argv[2].s
           /\ cfg.filename = argv[3].s
    /\ newRet.tag = "Err" => (touched = {} /\ ~fileOpen /\ config = None)

\* C4 as stated: Config::new discards argument 0, returns the query error
\* when nothing follows the program name, the file name error when one
\* argument follows it, and otherwise a Config of the two arguments that
\* follow; an error is returned before any file is opened or read.
C4_Original ==
    NewDone => C4_Returns

\* C4 as amended: that holds provided the arguments Config::new takes from
\* the iterator (the program name and up to two more) are valid Unicode;
\* when one of them is not, Config::new panics and returns nothing, and no
\* file has been opened or read.
C4_ConfigNewReturns ==
    NewDone =>
        IF ConsumedAreUnicode THEN C4_Returns
        ELSE /\ pc = "panic"
             /\ newRet = NoResult
             /\ config = None
             /\ touched = {}

\* C4's case: one argument follows the program name, and the file name
\* error is returned with no file opened.
C4_Witness ==
    /\ pc = "new_err"
    /\ Len(argv) = 2
    /\ argv[2] = Utf8(QueryArg)
    /\ newRet = Err(NoFileName)
    /\ touched = {}

\* The file run is to read cannot be opened, read or decoded.
CannotRead == cfg.filename # FileName \/ ~disk.valid

\* The errors the platform raises for that file.
RaisedErrors ==
    IF cfg.filename = FileName THEN {InvalidData}
    ELSE IF cfg.filename = DirName THEN {PermissionDenied, IsADirectory}
    ELSE {NotFound}

\* C5: if run fails to open, read or decode the file it returns that error
\* and has written nothing to standard output; it does not end in success.
C5_RunReturnsTheErrorAndPrintsNothing ==
    config # None =>
        /\ (pc = "run_err") <=> (runRet.tag = "Err")
        /\ pc = "run_err" =>
               /\ CannotRead
               /\ runRet.err \in RaisedErrors
               /\ stdout = <<>>
        /\ CannotRead => (pc # "run_ok" /\ stdout = <<>> /\ runRet # Ok)

\* C5's case: a query and the name of no file; run has returned NotFound
\* and printed nothing.
C5_Witness ==
    /\ pc = "run_err"
    /\ cfg.query = QueryArg
    /\ cfg.filename \notin {FileName, DirName}
    /\ runRet = Err(NotFound)
    /\ stdout = <<>>

RECURSIVE PrintedLines(_)
PrintedLines(lines) ==
    IF lines = <<>> THEN <<>> ELSE Head(lines) \o <<LF>> \o PrintedLines(Tail(lines))

\* What C6 says run writes, given the file's text.
Expected ==
    IF cfg.case_sensitive
    THEN search(cfg.query, disk.s)
    ELSE search_case_insensitive(cfg.query, disk.s)

C8_Original ==
    [][stdout' # stdout => ~fileOpen]_vars

\* C8 as amended: in every execution of run the file is opened and read to
\* its end before the first line of output is written; the handle is still
\* open while the output is written, and is released when run returns.
C8_ReadBeforeOutputHandleHeldUntilReturn ==
    /\ stdout # <<>> =>
           /\ pc \in {"run_print", "run_ok"}
           /\ touched = {FileName}
           /\ disk.valid
           /\ contents = disk.s
    /\ pc \in {"run_search", "run_print"} => fileOpen
    /\ pc \in {"run_ok", "run_err"} => ~fileOpen

\* C8's case: a line has been written, another is to follow, and the handle
\* is open.
C8_Witness ==
    /\ pc = "run_print"
    /\ stdout # <<>>
    /\ next < Len(results)
    /\ fileOpen

====
